---- MODULE Spec2Model ----
(***************************************************************************)
(* A model of rpi_rootfs.py: the relocation repair of a copied root file   *)
(* system.  Paths and file contents are sequences of one-character         *)
(* strings, so that str.startswith, the exclusion regular expression,      *)
(* os.path.relpath and str.replace act on characters as they do in Python. *)
(***************************************************************************)
EXTENDS Integers, Sequences, FiniteSets, TLC

VARIABLES
    pc,        \* the calls still to make, the head being the one in progress
    active,    \* whether the head call has been entered
    path,      \* the <rootfs path> argument
    log,       \* the diagnostics printed so far
    ret,       \* how main ended: "none", "zero", "one" or "exception"
    \* process_relativelinks
    topdir,    \* os.path.abspath(path)
    links,     \* the directory entries the walk meets: slot -> [kind, dir, target]
    links0,    \* history: links before the first run
    stack,     \* os.walk: directories still to yield, next first
    files,     \* the entries of the yielded directory not yet looked at
    rewritten, \* history: slots relativelinks_handlelink unlinked and recreated
    runs,      \* completed runs of process_relativelinks
    after1,    \* history: links when the first run returned
    \* process_pkgconfig_link
    pkgExists, \* whether <root>/usr/lib/arm-linux-gnueabihf/pkgconfig exists
    pkgFiles,  \* the files below it: [sub, name], sub empty for a direct file
    shareDir,  \* whether the directory <root>/usr/share/pkgconfig exists
    share,     \* what is at each path in it: [kind, target]
    share0,    \* history: share before the first run
    pkgTodo,   \* os.walk: the files not yet reached
    pkgDone,   \* history: the files symlink_force was called for
    created,   \* history: the paths at which symlink_force made a link
    raisedAt,  \* history: the paths at which symlink_force raised
    pkgRuns,   \* returns of process_pkgconfig_link that met the directory
    \* process_ld_scripts
    ld,        \* the linker scripts: absolute path -> [exists, text]
    ld0,       \* history: ld before the first run
    ldAfter1,  \* history: ld when the first run returned
    ldTodo,    \* the script names still to patch
    ldRuns,    \* completed runs of process_ld_scripts
    \* main
    argc,      \* len(argv)
    platform,  \* sys.platform
    url,       \* argv[1]
    syncRet    \* the exit status of rsync, -1 before it ran

ctlVars == <<pc, active, path, log, ret>>
linkVars == <<topdir, links, links0, stack, files, rewritten, runs, after1>>
pkgVars == <<pkgExists, pkgFiles, shareDir, share, share0, pkgTodo, pkgDone,
             created, raisedAt, pkgRuns>>
ldVars == <<ld, ld0, ldAfter1, ldTodo, ldRuns>>
mainVars == <<argc, platform, url, syncRet>>
vars == <<ctlVars, linkVars, pkgVars, ldVars, mainVars>>

-----------------------------------------------------------------------------
(* Bounds *)

MaxLinks == 2
MaxRuns == 2
MaxPieces == 2

-----------------------------------------------------------------------------
(* Strings *)

StartsWith(s, p) == Len(p) <= Len(s) /\ SubSeq(s, 1, Len(p)) = p

UpperToLower ==
    [c \in {"P", "R", "O", "C", "D", "E", "V"} |->
        CASE c = "P" -> "p" [] c = "R" -> "r" [] c = "O" -> "o" [] c = "C" -> "c"
          [] c = "D" -> "d" [] c = "E" -> "e" [] c = "V" -> "v"]

Lower(c) == IF c \in DOMAIN UpperToLower THEN UpperToLower[c] ELSE c

LowerStr(s) == [i \in 1..Len(s) |-> Lower(s[i])]

\* str.split('/')
RECURSIVE SplitFrom(_, _, _)
SplitFrom(s, i, cur) ==
    IF i > Len(s) THEN <<cur>>
    ELSE IF s[i] = "/" THEN <<cur>> \o SplitFrom(s, i + 1, <<>>)
    ELSE SplitFrom(s, i + 1, Append(cur, s[i]))

Split(s) == SplitFrom(s, 1, <<>>)

\* '/'.join(comps)
RECURSIVE JoinComps(_)
JoinComps(comps) ==
    IF comps = <<>> THEN <<>>
    ELSE IF Len(comps) = 1 THEN comps[1]
    ELSE comps[1] \o <<"/">> \o JoinComps(Tail(comps))

-----------------------------------------------------------------------------
(* posixpath *)

DotDot == <<".", ".">>
Dot == <<".">>

\* posixpath.join(a, b)
Join(a, b) ==
    IF b # <<>> /\ b[1] = "/" THEN b
    ELSE IF a = <<>> \/ a[Len(a)] = "/" THEN a \o b
    ELSE a \o <<"/">> \o b

InitialSlashes(p) ==
    IF ~StartsWith(p, <<"/">>) THEN 0
    ELSE IF StartsWith(p, <<"/", "/">>) /\ ~StartsWith(p, <<"/", "/", "/">>) THEN 2
    ELSE 1

RECURSIVE NormComps(_, _, _)
NormComps(comps, acc, initial) ==
    IF comps = <<>> THEN acc
    ELSE LET comp == Head(comps)
             rest == Tail(comps)
         IN  IF comp = <<>> \/ comp = Dot THEN NormComps(rest, acc, initial)
             ELSE IF comp # DotDot
                     \/ (initial = 0 /\ acc = <<>>)
                     \/ (acc # <<>> /\ acc[Len(acc)] = DotDot)
                  THEN NormComps(rest, Append(acc, comp), initial)
             ELSE IF acc # <<>>
                  THEN NormComps(rest, SubSeq(acc, 1, Len(acc) - 1), initial)
             ELSE NormComps(rest, acc, initial)

\* posixpath.normpath(p)
NormPath(p) ==
    IF p = <<>> THEN Dot
    ELSE LET initial == InitialSlashes(p)
             body == JoinComps(NormComps(Split(p), <<>>, initial))
             res == [i \in 1..initial |-> "/"] \o body
         IN  IF res = <<>> THEN Dot ELSE res

\* os.getcwd()
Cwd == <<"/", "w">>

\* posixpath.abspath(p)
AbsPath(p) == NormPath(Join(Cwd, p))

NonEmptyComps(p) == SelectSeq(Split(p), LAMBDA c : c # <<>>)

RECURSIVE CommonLen(_, _)
CommonLen(a, b) ==
    IF a = <<>> \/ b = <<>> \/ Head(a) # Head(b) THEN 0
    ELSE 1 + CommonLen(Tail(a), Tail(b))

\* posixpath.relpath(p, start)
RelPath(p, start) ==
    LET startList == NonEmptyComps(AbsPath(start))
        pathList == NonEmptyComps(AbsPath(p))
        i == CommonLen(startList, pathList)
        relList == [k \in 1..(Len(startList) - i) |-> DotDot]
                       \o SubSeq(pathList, i + 1, Len(pathList))
    IN  IF relList = <<>> THEN Dot ELSE JoinComps(relList)

-----------------------------------------------------------------------------
(* The file system the relative-link pass walks *)

RootArgs == { <<"/", "r">>, <<"s", "/">> }

\* The directories of the tree, as suffixes of the absolute root.
DirSuffixes ==
    { <<>>,
      <<"/", "a">>,
      <<"/", "a", "/", "b">>,
      <<"/", "D", "e", "v">>,
      <<"/", "D", "e", "v", "/", "a">>,
      <<"/", "a", "/", "p", "r", "o", "c">> }

TreeDirs(root) == { root \o s : s \in DirSuffixes }

\* Directories of the host the tool runs on, which an absolute link resolves in.
HostDirs == { <<"/", "l">> }

\* The targets a link of the tree may have; the empty one stands for an entry
\* that is a regular file.
LinkTargets(root) ==
    << <<"/", "l", "/", "f">>,
       <<"/", "l">>,
       <<"/", "a">>,
       <<".", ".", "/", "f">>,
       root \o <<"/", "l", "/", "f">>,
       <<>> >>

\* The directories that hold the entries.
EntryDirs(root) ==
    << root \o <<"/", "a">>,
       root \o <<"/", "a", "/", "b">>,
       root \o <<"/", "D", "e", "v", "/", "a">>,
       root \o <<"/", "a", "/", "p", "r", "o", "c">> >>

Slots == 1..MaxLinks

NumEntries(root) == Len(EntryDirs(root)) * Len(LinkTargets(root))

\* The n-th entry of the catalogue: a symbolic link with its target, or a file.
Entry(root, n) ==
    LET nt == Len(LinkTargets(root))
        t == LinkTargets(root)[((n - 1) % nt) + 1]
    IN  [kind |-> IF t = <<>> THEN "file" ELSE "link",
         dir |-> EntryDirs(root)[((n - 1) \div nt) + 1],
         target |-> t]

\* The trees of MaxLinks entries, one per choice of entries whatever their names.
Trees(root) ==
    { [i \in Slots |-> Entry(root, idx[i])] :
        idx \in { f \in [Slots -> 1..NumEntries(root)] :
                    \A i \in Slots : i + 1 \in Slots => f[i] <= f[i + 1] } }

\* What following a link leads to, resolved as the kernel does for a tree
\* whose directories are not themselves links.
Resolve(e) == NormPath(Join(e.dir, e.target))

\* os.DirEntry.is_dir(): symbolic links are followed.
EntryIsDir(e) ==
    e.kind = "link" /\ Resolve(e) \in TreeDirs(AbsPath(path)) \cup HostDirs

IsParent(d, c) ==
    /\ StartsWith(c, d \o <<"/">>)
    /\ \A k \in (Len(d) + 2)..Len(c) : c[k] # "/"

SubDirs(d) == { c \in TreeDirs(AbsPath(path)) : IsParent(d, c) }

\* The orders in which a set can be listed.
Orders(S) ==
    { q \in [1..Cardinality(S) -> S] : \A x \in S : \E k \in DOMAIN q : q[k] = x }

-----------------------------------------------------------------------------
(* process_relativelinks *)

MatchAt(s, i, lit) ==
    i + Len(lit) - 1 <= Len(s) /\ LowerStr(SubSeq(s, i, i + Len(lit) - 1)) = lit

\* ExcludedPath with a fault: re.IGNORECASE is dropped.
ExcludedPathCaseSensitive(subdir) ==
    \E i \in 1..Len(subdir) :
        \/ StartsWith(SubSeq(subdir, i, Len(subdir)), <<"/", "p", "r", "o", "c">>)
        \/ StartsWith(SubSeq(subdir, i, Len(subdir)), <<"/", "d", "e", "v">>)

\* any(re.findall(EXCLUDE_PATH_PATTERN, subdir, re.IGNORECASE))
ExcludedPath(subdir) ==
    \E i \in 1..Len(subdir) :
        \/ MatchAt(subdir, i, <<"/", "p", "r", "o", "c">>)
        \/ MatchAt(subdir, i, <<"/", "d", "e", "v">>)

\* KeepsLink with a fault: the test for the root prefix is left out.
KeepsLinkRelativeOnly(top, link) == link[1] # "/"

\* KeepsLink with a fault: the test for a relative target is left out.
KeepsLinkRootOnly(top, link) == StartsWith(link, top)

\* relativelinks_handlelink's early return
KeepsLink(top, link) == link[1] # "/" \/ StartsWith(link, top)

\* NewLinkTarget with a fault: the path is taken relative to the root instead
\* of the directory that holds the link.
NewLinkTargetFromTop(top, link, subdir) == RelPath(top \o link, top)

\* The target relativelinks_handlelink gives a link it rewrites.
NewLinkTarget(top, link, subdir) == RelPath(top \o link, subdir)

CallLinks ==
    /\ pc # <<>> /\ Head(pc) = "links" /\ ~active
    /\ active' = TRUE
    /\ topdir' = AbsPath(path)
    /\ stack' = <<AbsPath(path)>>
    /\ files' = {}
    /\ UNCHANGED <<pc, path, log, ret, links, links0, rewritten, runs, after1>>
    /\ UNCHANGED <<pkgVars, ldVars, mainVars>>

\* os.walk yields the next directory; an excluded one is skipped by continue,
\* and its subdirectories are still walked.
WalkDir ==
    /\ active /\ Head(pc) = "links"
    /\ files = {} /\ stack # <<>>
    /\ LET subdir == Head(stack)
       IN  /\ \E q \in Orders(SubDirs(subdir)) : stack' = q \o Tail(stack)
           /\ files' = IF ExcludedPath(subdir) THEN {}
                       ELSE { i \in Slots : links[i].dir = subdir /\ ~EntryIsDir(links[i]) }
    /\ UNCHANGED <<ctlVars, topdir, links, links0, rewritten, runs, after1>>
    /\ UNCHANGED <<pkgVars, ldVars, mainVars>>

\* One turn of "for f in files": os.path.islink, then relativelinks_handlelink.
VisitFile(i) ==
    /\ active /\ Head(pc) = "links"
    /\ i \in files
    /\ files' = files \ {i}
    /\ LET e == links[i]
       IN  IF e.kind = "link" /\ ~KeepsLink(topdir, e.target)
           THEN /\ links' = [links EXCEPT ![i].target = NewLinkTarget(topdir, e.target, e.dir)]
                /\ rewritten' = rewritten \cup {i}
           ELSE UNCHANGED <<links, rewritten>>
    /\ UNCHANGED <<ctlVars, topdir, links0, stack, runs, after1>>
    /\ UNCHANGED <<pkgVars, ldVars, mainVars>>

LinksReturn ==
    /\ active /\ Head(pc) = "links"
    /\ files = {} /\ stack = <<>>
    /\ pc' = Tail(pc)
    /\ active' = FALSE
    /\ runs' = runs + 1
    /\ after1' = IF runs = 0 THEN links ELSE after1
    /\ UNCHANGED <<path, log, ret, topdir, links, links0, stack, files, rewritten>>
    /\ UNCHANGED <<pkgVars, ldVars, mainVars>>


-----------------------------------------------------------------------------
(* process_pkgconfig_link *)

PkgConfigSuffix ==
    <<"/", "u", "s", "r", "/", "l", "i", "b", "/", "a", "r", "m", "-", "l", "i",
      "n", "u", "x", "-", "g", "n", "u", "e", "a", "b", "i", "h", "f", "/", "p",
      "k", "g", "c", "o", "n", "f", "i", "g">>

PkgTargetPrefix ==
    <<".", ".", "/", ".", ".", "/", "l", "i", "b", "/", "a", "r", "m", "-", "l",
      "i", "n", "u", "x", "-", "g", "n", "u", "e", "a", "b", "i", "h", "f", "/",
      "p", "k", "g", "c", "o", "n", "f", "i", "g", "/">>

SharePrefix ==
    <<"/", "u", "s", "r", "/", "s", "h", "a", "r", "e", "/", "p", "k", "g", "c",
      "o", "n", "f", "i", "g", "/">>

PkgConfigPath(p) == AbsPath(p) \o PkgConfigSuffix

TargetPackageConfig(f) == PkgTargetPrefix \o f

LinkPackageConfig(p, f) == AbsPath(p) \o SharePrefix \o f

\* The files a pkgconfig directory may hold: x and y in it, y and z in its
\* subdirectory s.
PkgCatalogue ==
    { [sub |-> <<>>, name |-> <<"x">>],
      [sub |-> <<>>, name |-> <<"y">>],
      [sub |-> <<"/", "s">>, name |-> <<"y">>],
      [sub |-> <<"/", "s">>, name |-> <<"z">>] }

PkgNames == { f.name : f \in PkgCatalogue }

SharePaths(p) == { LinkPackageConfig(p, n) : n \in PkgNames }

Absent == [kind |-> "absent", target |-> <<>>]
Symlink(target) == [kind |-> "symlink", target |-> target]

\* What may be at a path of usr/share/pkgconfig before the tool runs.
ShareEntries ==
    { Absent,
      Symlink(<<"o", "l", "d">>),
      [kind |-> "file", target |-> <<>>],
      [kind |-> "dir", target |-> <<>>] }

\* SymlinkForce with a fault: an existing path is reported like any other error.
SymlinkNoForce(sh, dirExists, target, linkName) ==
    IF dirExists /\ sh[linkName].kind = "absent"
    THEN [share |-> [sh EXCEPT ![linkName] = Symlink(target)], outcome |-> "created"]
    ELSE [share |-> sh, outcome |-> "printed"]

\* symlink_force(target, link_name) on the directory content sh: os.symlink
\* fails with ENOENT where the directory is missing and with EEXIST where the
\* path exists; os.remove then raises on a directory.
SymlinkForce(sh, dirExists, target, linkName) ==
    IF ~dirExists
    THEN [share |-> sh, outcome |-> "printed"]
    ELSE IF sh[linkName].kind = "absent"
    THEN [share |-> [sh EXCEPT ![linkName] = Symlink(target)], outcome |-> "created"]
    ELSE IF sh[linkName].kind = "dir"
    THEN [share |-> sh, outcome |-> "raised"]
    ELSE [share |-> [sh EXCEPT ![linkName] = Symlink(target)], outcome |-> "replaced"]

\* os.path.exists(pkgconfig_path) holds
CallPkg ==
    /\ pc # <<>> /\ Head(pc) = "pkg" /\ ~active
    /\ pkgExists
    /\ active' = TRUE
    /\ pkgTodo' = pkgFiles   \* os.walk: every file below the directory, at any depth
    /\ UNCHANGED <<pc, path, log, ret>>
    /\ UNCHANGED <<pkgExists, pkgFiles, shareDir, share, share0, pkgDone, created,
                   raisedAt, pkgRuns>>
    /\ UNCHANGED <<linkVars, ldVars, mainVars>>

\* PkgMissing with a fault: the missing directory ends the program with status 1.
PkgMissingExits ==
    /\ pc # <<>> /\ Head(pc) = "pkg" /\ ~active
    /\ ~pkgExists
    /\ log' = log \cup {[msg |-> "pkg-config does not exist", at |-> PkgConfigPath(path)]}
    /\ pc' = <<>>
    /\ ret' = "one"
    /\ UNCHANGED <<active, path>>
    /\ UNCHANGED <<pkgVars, linkVars, ldVars, mainVars>>

\* the else branch: the directory is reported missing and the call returns
PkgMissing ==
    /\ pc # <<>> /\ Head(pc) = "pkg" /\ ~active
    /\ ~pkgExists
    /\ log' = log \cup {[msg |-> "pkg-config does not exist", at |-> PkgConfigPath(path)]}
    /\ pc' = Tail(pc)
    /\ UNCHANGED <<active, path, ret>>
    /\ UNCHANGED <<pkgVars, linkVars, ldVars, mainVars>>

\* One turn of "for f in files": the walk is top down, so the files of the
\* directory itself come before those of its subdirectories.
PkgLink(f) ==
    /\ active /\ Head(pc) = "pkg"
    /\ f \in pkgTodo
    /\ f.sub # <<>> => \A g \in pkgTodo : g.sub # <<>>
    /\ LET target == TargetPackageConfig(f.name)
           linkName == LinkPackageConfig(path, f.name)
           r == SymlinkForce(share, shareDir, target, linkName)
       IN  /\ share' = r.share
           /\ pkgDone' = pkgDone \cup {f}
           /\ created' = IF r.outcome \in {"created", "replaced"}
                         THEN created \cup {linkName} ELSE created
           /\ log' = IF r.outcome = "printed"
                     THEN log \cup {[msg |-> "Error", at |-> linkName]} ELSE log
           /\ IF r.outcome = "raised"
              THEN /\ raisedAt' = raisedAt \cup {linkName}
                   /\ pc' = <<>>
                   /\ active' = FALSE
                   /\ ret' = "exception"
                   /\ pkgTodo' = pkgTodo
              ELSE /\ pkgTodo' = pkgTodo \ {f}
                   /\ UNCHANGED <<raisedAt, pc, active, ret>>
    /\ UNCHANGED <<path, pkgExists, pkgFiles, shareDir, share0, pkgRuns>>
    /\ UNCHANGED <<linkVars, ldVars, mainVars>>

PkgReturn ==
    /\ active /\ Head(pc) = "pkg"
    /\ pkgTodo = {}
    /\ pc' = Tail(pc)
    /\ active' = FALSE
    /\ pkgRuns' = pkgRuns + 1
    /\ UNCHANGED <<path, log, ret>>
    /\ UNCHANGED <<pkgExists, pkgFiles, shareDir, share, share0, pkgTodo, pkgDone,
                   created, raisedAt>>
    /\ UNCHANGED <<linkVars, ldVars, mainVars>>

-----------------------------------------------------------------------------
(* process_ld_scripts *)

UsrLib == <<"/", "u", "s", "r", "/", "l", "i", "b", "/">>

LdScripts ==
    << <<"l", "i", "b", "b", "f", "d", ".", "s", "o">>,
       <<"l", "i", "b", "o", "p", "c", "o", "d", "e", "s", ".", "s", "o">> >>

Anchor == <<"G", "R", "O", "U", "P", " ", "(">>

ArchLib ==
    <<"/", "u", "s", "r", "/", "l", "i", "b", "/", "a", "r", "m", "-", "l", "i",
      "n", "u", "x", "-", "g", "n", "u", "e", "a", "b", "i", "h", "f", "/">>

\* f"{path}/usr/lib/{ldscript}", as open() and os.path.exists() resolve it
LdScriptPath(p, name) == AbsPath(p \o UsrLib \o name)

LdPaths(p) == { LdScriptPath(p, LdScripts[k]) : k \in DOMAIN LdScripts }

\* f"{os.path.abspath(path)}/usr/lib/arm-linux-gnueabihf/"
NewContent(p) == AbsPath(p) \o ArchLib

\* old in s
Contains(s, old) == \E i \in 1..Len(s) : StartsWith(SubSeq(s, i, Len(s)), old)

\* str.replace(old, new): every occurrence, left to right, none overlapping
RECURSIVE Replace(_, _, _)
Replace(s, old, new) ==
    IF Len(s) < Len(old) THEN s
    ELSE IF StartsWith(s, old)
         THEN new \o Replace(SubSeq(s, Len(old) + 1, Len(s)), old, new)
    ELSE <<Head(s)>> \o Replace(Tail(s), old, new)

\* str.replace(old, new, 1)
RECURSIVE ReplaceFirst(_, _, _)
ReplaceFirst(s, old, new) ==
    IF Len(s) < Len(old) THEN s
    ELSE IF StartsWith(s, old)
         THEN new \o SubSeq(s, Len(old) + 1, Len(s))
    ELSE <<Head(s)>> \o ReplaceFirst(Tail(s), old, new)

\* InplaceChange with a fault: only the first occurrence is replaced.
InplaceChangeFirst(s, old, new) ==
    IF ~Contains(s, old) THEN s ELSE ReplaceFirst(s, old, new)

\* The text inplace_change leaves in a file that held s.
InplaceChange(s, old, new) ==
    IF ~Contains(s, old) THEN s ELSE Replace(s, old, new)

\* The pieces a linker script is made of in this model.
Pieces == { Anchor, <<" ", "a", " ", ")">>, <<"G", "R", "O", "U", "P">> }

RECURSIVE TextsOf(_)
TextsOf(n) ==
    IF n = 0 THEN { <<>> }
    ELSE LET shorter == TextsOf(n - 1)
         IN  shorter \cup { t \o q : t \in shorter, q \in Pieces }

LdFiles ==
    { [exists |-> FALSE, text |-> <<>>] }
        \cup { [exists |-> TRUE, text |-> t] : t \in TextsOf(MaxPieces) }

CallLd ==
    /\ pc # <<>> /\ Head(pc) = "ld" /\ ~active
    /\ active' = TRUE
    /\ ldTodo' = LdScripts
    /\ UNCHANGED <<pc, path, log, ret, ld, ld0, ldAfter1, ldRuns>>
    /\ UNCHANGED <<linkVars, pkgVars, mainVars>>

\* fix_process_ld_scripts(path, ldscript_path) for the next script
FixLdScript ==
    /\ active /\ Head(pc) = "ld"
    /\ ldTodo # <<>>
    /\ LET filename == LdScriptPath(path, Head(ldTodo))
           old == Anchor
           new == Anchor \o NewContent(path)
       IN  IF ~ld[filename].exists
           THEN /\ log' = log \cup {[msg |-> "linker script file does not exist",
                                     at |-> filename]}
                /\ ld' = ld
           ELSE /\ log' = IF Contains(ld[filename].text, old) THEN log
                          ELSE log \cup {[msg |-> "not found in", at |-> filename]}
                /\ ld' = [ld EXCEPT ![filename].text = InplaceChange(@, old, new)]
    /\ ldTodo' = Tail(ldTodo)
    /\ UNCHANGED <<pc, active, path, ret, ld0, ldAfter1, ldRuns>>
    /\ UNCHANGED <<linkVars, pkgVars, mainVars>>

LdReturn ==
    /\ active /\ Head(pc) = "ld"
    /\ ldTodo = <<>>
    /\ pc' = Tail(pc)
    /\ active' = FALSE
    /\ ldRuns' = ldRuns + 1
    /\ ldAfter1' = IF ldRuns = 0 THEN ld ELSE ldAfter1
    /\ UNCHANGED <<path, log, ret, ld, ld0, ldTodo>>
    /\ UNCHANGED <<linkVars, pkgVars, mainVars>>

-----------------------------------------------------------------------------
(* main *)

Linux == <<"l", "i", "n", "u", "x">>

Platforms == { Linux, <<"l", "i", "n", "u", "x", "2">>, <<"w", "i", "n", "3", "2">> }

\* The exit statuses rsync is given here: success and a partial transfer.
SyncStatuses == { 0, 23 }

\* main up to its first call: the argument count and the platform
MainStart ==
    /\ pc # <<>> /\ Head(pc) = "main"
    /\ IF argc # 3
       THEN /\ log' = log \cup {[msg |-> "Usage", at |-> <<>>]}
            /\ ret' = "one"
            /\ pc' = <<>>
       ELSE IF ~StartsWith(platform, Linux)
       THEN /\ log' = log \cup {[msg |-> "does not support this platform", at |-> platform]}
            /\ ret' = "one"
            /\ pc' = <<>>
       ELSE /\ pc' = (IF url # "local" THEN <<"sync">> ELSE <<>>)
                         \o <<"links", "pkg", "ld", "return">>
            /\ UNCHANGED <<log, ret>>
    /\ UNCHANGED <<active, path>>
    /\ UNCHANGED <<linkVars, pkgVars, ldVars, mainVars>>

\* process_rsync_rootfs, the external mirror step, and main's test of its
\* status; the tree is taken as the mirror step leaves it.
Sync ==
    /\ pc # <<>> /\ Head(pc) = "sync"
    /\ \E r \in SyncStatuses :
        /\ syncRet' = r
        /\ IF r # 0
           THEN /\ log' = log \cup {[msg |-> "Rsync error", at |-> <<>>]}
                /\ ret' = "one"
                /\ pc' = <<>>
           ELSE /\ pc' = Tail(pc)
                /\ UNCHANGED <<log, ret>>
    /\ UNCHANGED <<active, path, argc, platform, url>>
    /\ UNCHANGED <<linkVars, pkgVars, ldVars>>

\* return 0
MainReturn ==
    /\ pc # <<>> /\ Head(pc) = "return"
    /\ ret' = "zero"
    /\ pc' = <<>>
    /\ UNCHANGED <<active, path, log>>
    /\ UNCHANGED <<linkVars, pkgVars, ldVars, mainVars>>

-----------------------------------------------------------------------------
(* Initial states and specifications *)

LinksIdle ==
    /\ topdir = <<>> /\ stack = <<>> /\ files = {} /\ rewritten = {} /\ runs = 0
    /\ links0 = links /\ after1 = links

PkgIdle ==
    /\ pkgTodo = {} /\ pkgDone = {} /\ created = {} /\ raisedAt = {} /\ pkgRuns = 0
    /\ share0 = share

LdIdle == ldTodo = <<>> /\ ldRuns = 0 /\ ld0 = ld /\ ldAfter1 = ld

NoLinks == links = <<>> /\ LinksIdle

NoPkg ==
    /\ pkgExists = FALSE /\ pkgFiles = {} /\ shareDir = FALSE
    /\ share = [q \in SharePaths(path) |-> Absent]
    /\ PkgIdle

NoLd == ld = [q \in LdPaths(path) |-> [exists |-> FALSE, text |-> <<>>]] /\ LdIdle

NoMain == argc = 3 /\ platform = Linux /\ url = "local" /\ syncRet = -1

InitLinks ==
    /\ pc = [k \in 1..MaxRuns |-> "links"]
    /\ active = FALSE /\ log = {} /\ ret = "none"
    /\ path \in RootArgs
    /\ links \in Trees(AbsPath(path))
    /\ LinksIdle /\ NoPkg /\ NoLd /\ NoMain

InitPkg ==
    /\ pc = [k \in 1..MaxRuns |-> "pkg"]
    /\ active = FALSE /\ log = {} /\ ret = "none"
    /\ path \in RootArgs
    /\ pkgExists \in BOOLEAN
    /\ pkgFiles \in (IF pkgExists THEN SUBSET PkgCatalogue ELSE { {} })
    /\ shareDir \in BOOLEAN
    /\ share \in (IF shareDir THEN [SharePaths(path) -> ShareEntries]
                  ELSE { [q \in SharePaths(path) |-> Absent] })
    /\ PkgIdle /\ NoLinks /\ NoLd /\ NoMain

InitLd ==
    /\ pc = [k \in 1..MaxRuns |-> "ld"]
    /\ active = FALSE /\ log = {} /\ ret = "none"
    /\ path \in RootArgs
    /\ ld \in [LdPaths(path) -> LdFiles]
    /\ LdIdle /\ NoLinks /\ NoPkg /\ NoMain

\* main is run on trees whose entries are alike and lie in <root>/a, on a
\* pkgconfig directory that is missing or holds x and s/z, and on scripts that
\* are missing, hold the anchor alone or hold no anchor.
InitMain ==
    /\ pc = <<"main">>
    /\ active = FALSE /\ log = {} /\ ret = "none"
    /\ path \in RootArgs
    /\ argc \in {2, 3}
    /\ platform \in Platforms
    /\ url \in {"local", "pi@host"}
    /\ syncRet = -1
    /\ links \in { t \in Trees(AbsPath(path)) :
                    \A i \in Slots : /\ t[i] = t[1]
                                     /\ t[i].dir = AbsPath(path) \o <<"/", "a">>
                                     /\ t[i].target \in {<<"/", "l", "/", "f">>, <<".", ".", "/", "f">>} }
    /\ pkgExists \in BOOLEAN
    /\ pkgFiles = (IF pkgExists
                   THEN { f \in PkgCatalogue : f.name \in {<<"x">>, <<"z">>} } ELSE {})
    /\ shareDir = TRUE
    /\ share \in { sh \in [SharePaths(path) -> ShareEntries] : \A q, r \in DOMAIN sh : sh[q] = sh[r] }
    /\ ld \in [LdPaths(path) -> { f \in LdFiles : ~f.exists \/ f.text \in {Anchor, <<" ", "a", " ", ")">>} }]
    /\ LinksIdle /\ PkgIdle /\ LdIdle

NextLinks ==
    \/ CallLinks
    \/ WalkDir
    \/ \E i \in Slots : VisitFile(i)
    \/ LinksReturn

NextPkg ==
    \/ CallPkg
    \/ PkgMissing
    \/ \E f \in PkgCatalogue : PkgLink(f)
    \/ PkgReturn

NextLd ==
    \/ CallLd
    \/ FixLdScript
    \/ LdReturn

NextMain ==
    \/ MainStart
    \/ Sync
    \/ NextLinks
    \/ NextPkg
    \/ NextLd
    \/ MainReturn

SpecLinks == InitLinks /\ [][NextLinks]_vars
SpecPkg == InitPkg /\ [][NextPkg]_vars
SpecLd == InitLd /\ [][NextLd]_vars
SpecMain == InitMain /\ [][NextMain]_vars

-----------------------------------------------------------------------------
(* Properties of the relative-link pass *)

Root == AbsPath(path)

IsAbsolute(t) == t # <<>> /\ t[1] = "/"

\* The link's target starts with '/' and does not start with the root.
Qualifies(e) == e.kind = "link" /\ IsAbsolute(e.target) /\ ~StartsWith(e.target, Root)

ContainsNoCase(s, lit) ==
    \E i \in 1..Len(s) :
        i + Len(lit) - 1 <= Len(s) /\ LowerStr(SubSeq(s, i, i + Len(lit) - 1)) = lit

\* d is, or lies at some depth below, a directory whose path contains /proc or
\* /dev in any case.
UnderProcOrDev(d) ==
    \E n \in 1..Len(d) :
        /\ n = Len(d) \/ d[n + 1] = "/"
        /\ \/ ContainsNoCase(SubSeq(d, 1, n), <<"/", "p", "r", "o", "c">>)
           \/ ContainsNoCase(SubSeq(d, 1, n), <<"/", "d", "e", "v">>)

\* The entry is as it was before the first run and was never unlinked.
Untouched(i) == links[i] = links0[i] /\ i \notin rewritten

\* C1: every link relativelinks_handlelink rewrites had a target T that starts
\* with '/' and not with the root R, and its new target N is relative and such
\* that normpath(join(D, N)) = normpath(R + T), D being the link's directory.
C1_RewrittenResolvesUnderRoot ==
    \A i \in rewritten :
        /\ Qualifies(links0[i])
        /\ ~IsAbsolute(links[i].target)
        /\ NormPath(Join(links[i].dir, links[i].target))
              = NormPath(Root \o links0[i].target)

\* C1's case: the link /lib-like target /l/f held in <root>/a/b now reads
\* ../../l/f.
C1_Witness ==
    \E i \in rewritten :
        /\ links0[i].target = <<"/", "l", "/", "f">>
        /\ links[i].dir = Root \o <<"/", "a", "/", "b">>
        /\ links[i].target = <<".", ".", "/", ".", ".", "/", "l", "/", "f">>

\* C2: once the first run of process_relativelinks has returned, every entry
\* keeps the target it had then, during and after every later run.
C2_SecondRunChangesNothing == runs >= 1 => links = after1

\* C2's case: a second run has returned over a tree the first run rewrote.
C2_Witness == runs = 2 /\ rewritten # {} /\ links # links0

\* C3: a link that lies under a directory whose path contains /proc or /dev,
\* in any case and at any depth, is never unlinked or recreated.
C3_ExcludedLinksUntouched ==
    \A i \in Slots :
        \/ Untouched(i)
        \/ ~(links0[i].kind = "link" /\ UnderProcOrDev(links0[i].dir))

\* C3's case: a run has returned and a link to /l/f two levels below the root,
\* in <root>/Dev/a, is as it was.
C3_Witness ==
    /\ runs >= 1
    /\ \E i \in Slots :
        /\ links0[i].dir = Root \o <<"/", "D", "e", "v", "/", "a">>
        /\ Qualifies(links0[i])
        /\ ~EntryIsDir(links0[i])
        /\ links[i] = links0[i]

\* C4: a link whose target does not start with '/', or starts with the root,
\* is never unlinked or recreated.
C4_RelativeAndRootedLinksUntouched ==
    \A i \in Slots :
        \/ Untouched(i)
        \/ ~(/\ links0[i].kind = "link"
             /\ ~IsAbsolute(links0[i].target) \/ StartsWith(links0[i].target, Root))

\* C4's case: a run has returned over a tree that holds, in directories the
\* walk does not skip, a link to ../f and a link to <root>/l/f.
C4_Witness ==
    /\ runs >= 1
    /\ \E i, j \in Slots :
        /\ ~UnderProcOrDev(links0[i].dir) /\ ~UnderProcOrDev(links0[j].dir)
        /\ links0[i].target = <<".", ".", "/", "f">>
        /\ links0[j].target = Root \o <<"/", "l", "/", "f">>
        /\ links[i] = links0[i] /\ links[j] = links0[j]

\* C9: after a run that has returned, no symbolic link in a directory that is
\* not excluded has a target that starts with '/' and not with the root.
C9_NoAbsoluteLinkLeft ==
    runs >= 1 =>
        \A i \in Slots : ~UnderProcOrDev(links[i].dir) => ~Qualifies(links[i])

-----------------------------------------------------------------------------
(* Properties of the pkg-config links *)

DirectFiles == { f \in pkgFiles : f.sub = <<>> }

\* os.path.dirname
DirName(p) ==
    LET cut == CHOOSE k \in 1..Len(p) : p[k] = "/" /\ \A j \in (k + 1)..Len(p) : p[j] # "/"
    IN  IF cut = 1 THEN <<"/">> ELSE SubSeq(p, 1, cut - 1)

\* C5: for a file x directly inside the pkgconfig directory whose path in
\* usr/share/pkgconfig held a symlink or a file before the run, once
\* symlink_force has been called for x the path is a symbolic link to
\* ../../lib/arm-linux-gnueabihf/pkgconfig/x and the call raised nothing; and
\* when process_pkgconfig_link has returned, it has been called for x.
C5_ExistingPathIsReplaced ==
    \A f \in DirectFiles :
        LET q == LinkPackageConfig(path, f.name)
        IN  share0[q].kind \in {"symlink", "file"} =>
                /\ f \in pkgDone =>
                       /\ share[q] = Symlink(PkgTargetPrefix \o f.name)
                       /\ q \notin raisedAt
                /\ pkgRuns >= 1 => f \in pkgDone

\* C5's case: the run has returned, x was a file and y a stale symlink, and
\* both are now links into the pkgconfig directory.
C5_Witness ==
    /\ pkgRuns >= 1
    /\ {<<"x">>, <<"y">>} \subseteq { f.name : f \in DirectFiles }
    /\ share0[LinkPackageConfig(path, <<"x">>)].kind = "file"
    /\ share0[LinkPackageConfig(path, <<"y">>)] = Symlink(<<"o", "l", "d">>)
    /\ share[LinkPackageConfig(path, <<"x">>)] = Symlink(PkgTargetPrefix \o <<"x">>)
    /\ share[LinkPackageConfig(path, <<"y">>)] = Symlink(PkgTargetPrefix \o <<"y">>)

\* C10: where usr/share/pkgconfig exists and the run has returned, every file
\* directly inside the pkgconfig directory has its link; and a link is made for
\* no other file, so that every link made names, from the directory it lies
\* in, an existing file of the pkgconfig directory.
C10_LinksOnlyForDirectFiles ==
    /\ (pkgRuns >= 1 /\ shareDir) =>
           \A f \in DirectFiles :
               share[LinkPackageConfig(path, f.name)] = Symlink(PkgTargetPrefix \o f.name)
    /\ \A q \in created :
           /\ q \in { LinkPackageConfig(path, f.name) : f \in DirectFiles }
           /\ NormPath(Join(DirName(q), share[q].target))
                  \in { PkgConfigPath(path) \o <<"/">> \o f.name : f \in DirectFiles }

-----------------------------------------------------------------------------
(* Properties of the linker scripts *)

At(s, i, sub) == i >= 1 /\ i + Len(sub) - 1 <= Len(s) /\ SubSeq(s, i, i + Len(sub) - 1) = sub

Count(s, sub) == Cardinality({ i \in 1..Len(s) : At(s, i, sub) })

\* s with every occurrence of sub taken out
RECURSIVE Without(_, _)
Without(s, sub) ==
    IF Len(s) < Len(sub) THEN s
    ELSE IF StartsWith(s, sub) THEN Without(SubSeq(s, Len(sub) + 1, Len(s)), sub)
    ELSE <<Head(s)>> \o Without(Tail(s), sub)

\* C6: the scripts after two runs of process_ld_scripts with the same root are
\* what they were after one run.
C6_SecondRunChangesNothing == ldRuns >= 2 => ld = ldAfter1

\* C8 as stated: one run rewrites the first occurrence of the anchor only, and
\* leaves every later occurrence and all other bytes as they were.
C8_OnlyFirstAnchorRewritten ==
    ldRuns >= 1 =>
        \A q \in DOMAIN ld0 :
            ld0[q].exists =>
                ldAfter1[q].text
                    = ReplaceFirst(ld0[q].text, Anchor, Anchor \o NewContent(path))

\* C8 as amended: one run rewrites every occurrence of the anchor, each exactly
\* once: the script has as many anchors as before, each followed by the
\* library path, the path occurs once per anchor, and taking it out gives the
\* text the script had; a script that is missing stays missing.
C8_EveryAnchorRewrittenOnce ==
    ldRuns >= 1 =>
        \A q \in DOMAIN ld0 :
            LET old == ld0[q].text
                new == ldAfter1[q].text
                ins == NewContent(path)
            IN  /\ ldAfter1[q].exists = ld0[q].exists
                /\ Count(new, Anchor) = Count(old, Anchor)
                /\ \A i \in 1..Len(new) :
                       At(new, i, Anchor) => At(new, i + Len(Anchor), ins)
                /\ Count(new, ins) = Count(old, Anchor)
                /\ Without(new, ins) = old

\* C8's case: a script that held the anchor twice holds, after one run, the
\* anchor and the library path twice.
C8_Witness ==
    /\ ldRuns >= 1
    /\ \E q \in DOMAIN ld0 :
        /\ ld0[q].text = Anchor \o Anchor
        /\ ldAfter1[q].text
               = Anchor \o NewContent(path) \o Anchor \o NewContent(path)

-----------------------------------------------------------------------------
(* Properties of main *)

\* main was given three arguments on a linux platform, and the mirror step
\* was skipped or has returned 0.
RepairStarted ==
    /\ argc = 3
    /\ StartsWith(platform, Linux)
    /\ url = "local" \/ syncRet = 0

Reported(m, q) == [msg |-> m, at |-> q] \in log

\* C7: in a run where the repair started, a missing pkgconfig directory is
\* never followed by an exception or a return of 1, and when main has ended it
\* has returned 0 with nothing in usr/share/pkgconfig changed, the directory
\* reported, and process_ld_scripts run; and when main has ended after
\* process_ld_scripts ran, it has returned 0, every missing script is reported
\* and still missing, and every script without the anchor is reported and as
\* it was.
C7_MissingInputsDoNotAbort ==
    RepairStarted =>
        /\ ~pkgExists =>
               /\ ret \in {"none", "zero"}
               /\ share = share0 /\ created = {}
               /\ pc = <<>> =>
                      /\ ret = "zero"
                      /\ Reported("pkg-config does not exist", PkgConfigPath(path))
                      /\ ldRuns = 1
        /\ (pc = <<>> /\ ldRuns = 1) =>
               /\ ret = "zero"
               /\ \A q \in DOMAIN ld0 :
                      /\ ~ld0[q].exists =>
                             /\ Reported("linker script file does not exist", q)
                             /\ ld[q] = ld0[q]
                      /\ (ld0[q].exists /\ ~Contains(ld0[q].text, Anchor)) =>
                             /\ Reported("not found in", q)
                             /\ ld[q] = ld0[q]

\* C7's case: main has returned 0 after a run without the pkgconfig directory
\* in which libbfd.so was missing and libopcodes.so held no anchor.
C7_Witness ==
    /\ RepairStarted /\ ~pkgExists
    /\ pc = <<>> /\ ret = "zero"
    /\ ~ld0[LdScriptPath(path, LdScripts[1])].exists
    /\ ld0[LdScriptPath(path, LdScripts[2])].exists
    /\ ~Contains(ld0[LdScriptPath(path, LdScripts[2])].text, Anchor)

====
